---- MODULE Spec2Model ----
(***************************************************************************)
(* State-machine model of rviz_camera_stream's CameraPub display and its   *)
(* VideoPublisher (src/src/camera_display.cpp).                            *)
(*                                                                         *)
(* Two threads act on the display: the render/UI thread, which runs the    *)
(* lifecycle handlers, the property slots and update(), and the update_nh_ *)
(* callback thread, which delivers camera-info and image messages.         *)
(* update() is cut at its synchronisation points (the caminfo mutex, the   *)
(* render-target listener callbacks); every other handler is one action.   *)
(***************************************************************************)
EXTENDS Integers, Sequences, FiniteSets, TLC

\* ---------------------------------------------------------------- bounds
\* Frames published before the model stops ticking.
MaxFrames == 2

\* The largest width and height of the render window in SpecCapture and
\* SpecZoom, and of the image in SpecZoom.
MaxDim == 4

\* The largest focal length in SpecZoom.
MaxFocal == 3

\* Significant bits of the model's `float`: a float of the source has 24, and
\* rounds in the same way.
MantissaBits == 3

\* image_id_ is a 32-bit uint, kept as <<high, low>> 16-bit halves: its
\* increment wraps at 2^32.
UIntHalf == 65536

\* ------------------------------------------------------- null-able pointers
\* A shared pointer is <<>> (null) or <<value>>.
Null == <<>>
Ptr(x) == <<x>>

\* ------------------------------------------------------------- rationals
\* float/double arithmetic of updateCamera, kept exact: <<numerator, denominator>>
\* in lowest terms with a positive denominator.
Abs(x) == IF x < 0 THEN -x ELSE x

RECURSIVE GCD(_, _)
GCD(a, b) == IF b = 0 THEN a ELSE GCD(b, a % b)

\* A zero denominator is IEEE's result of dividing by zero: <<1, 0>> is +Inf,
\* <<-1, 0>> is -Inf and <<0, 0>> is NaN.
Rat(n, d) ==
  IF d = 0
  THEN <<IF n > 0 THEN 1 ELSE IF n < 0 THEN -1 ELSE 0, 0>>
  ELSE LET s == IF d < 0 THEN -1 ELSE 1
           g == GCD(Abs(n), Abs(d))
       IN  <<(s * n) \div g, (s * d) \div g>>

RMul(a, b) == Rat(a[1] * b[1], a[2] * b[2])
RDiv(a, b) == Rat(a[1] * b[2], a[2] * b[1])
RSub(a, b) == Rat(a[1] * b[2] - b[1] * a[2], a[2] * b[2])
RNeg(a) == <<-a[1], a[2]>>
RGt(a, b) == a[1] * b[2] > b[1] * a[2]
RInt(n) == <<n, 1>>
RFinite(a) == a[2] # 0

\* ------------------------------------------------------------------ float
RECURSIVE Pow2(_)
Pow2(k) == IF k = 0 THEN 1 ELSE 2 * Pow2(k - 1)

\* The positive n / d as <<m * a, b>> with m of MantissaBits bits, the nearest
\* such value, ties going to the even m.
RECURSIVE FlPos(_, _)
FlPos(n, d) ==
  IF n < d * Pow2(MantissaBits - 1)
  THEN LET r == FlPos(2 * n, d) IN <<r[1], 2 * r[2]>>
  ELSE IF n >= d * Pow2(MantissaBits)
  THEN LET r == FlPos(n, 2 * d) IN <<2 * r[1], r[2]>>
  ELSE LET q == n \div d
           rem == n % d
       IN  <<IF 2 * rem > d \/ (2 * rem = d /\ q % 2 = 1) THEN q + 1 ELSE q, 1>>

\* A value stored in a `float`, and the result of an operation on floats: the
\* value rounded to nearest. Zero, the infinities and NaN are kept; a double is
\* taken to be exact.
Fl(a) ==
  IF a[2] = 0 \/ a[1] = 0 THEN a
  ELSE IF a[1] < 0
  THEN LET r == FlPos(-a[1], a[2]) IN Rat(-r[1], r[2])
  ELSE LET r == FlPos(a[1], a[2]) IN Rat(r[1], r[2])

\* ------------------------------------------------------------ the inputs
BACKGROUND == "background"
OVERLAY == "overlay"
BOTH == "background and overlay"
Modes == {BACKGROUND, OVERLAY, BOTH}

\* sensor_msgs::CameraInfo: width, height, the row-major 3x4 matrix P, and which
\* of the arrays D/K/R/P (if any) holds a NaN or an Inf.
MkInfo(w, h, nan, fx, fy, p3) ==
  [width |-> w, height |-> h, nan |-> nan,
   P |-> <<fx, 0, 2, p3,  0, fy, 1, 0,  0, 0, 1, 0>>]

\* The messages the callback thread delivers in Spec ...
Infos ==
  { MkInfo(4, 2, "none", 1, 1, 0) }    \* well formed, image aspect 2

\* ... and the ones the resolver is given in SpecResolve.
ResolverInfos ==
  Infos \cup
  { MkInfo(4, 2, "P", 1, 1, 0),       \* NaN in P
    MkInfo(4, 2, "none", 2, 1, 2),    \* well formed, image aspect 1, stereo baseline
    MkInfo(4, 2, "none", 3, 2, 0),    \* well formed, image aspect 4/3
    MkInfo(0, 0, "none", 1, 1, 0),    \* malformed: no dimensions
    MkInfo(0, 2, "none", 1, 1, 0),    \* malformed: no width
    MkInfo(0, 0, "P", 1, 1, 0),       \* NaN in P and no dimensions
    MkInfo(4, 2, "K", 1, 1, 0),       \* NaN in K
    MkInfo(4, 2, "none", 0, 1, 0) }   \* fx = 0

\* P[i] with the source's 0-based index.
P(info, i) == info.P[i + 1]

\* sensor_msgs::Image: header stamp, dimensions, encoding.
MkImage(stamp, encoding) ==
  [stamp |-> stamp, width |-> 4, height |-> 2, encoding |-> encoding]

Images == { MkImage(1, "rgb8"), MkImage(1, "unsupported") }

ResolverImages == Images \cup { MkImage(2, "rgb8") }

\* What the frame manager answers one updateCamera() call: getSyncMode(),
\* getTime(), and getTransform(), which resolves the pose ("ok") or fails and
\* leaves `position` holding whatever it held, a finite value or a non-finite one.
MkAnswer(sync, rviz_time, tf) == [sync |-> sync, rviz_time |-> rviz_time, tf |-> tf]

Answers ==
  { MkAnswer("approx", 2, "ok"),
    MkAnswer("exact", 2, "ok") }

ResolverAnswers ==
  { MkAnswer(sync, rviz_time, tf) :
      sync \in {"approx", "exact"}, rviz_time \in {1, 2},
      tf \in {"ok", "fail_finite", "fail_nan"} }

\* render_panel_->width() x height(): 640x480 and two resized panels.
InitialWin == <<4, 3>>
WinSizes == {InitialWin, <<4, 2>>, <<0, 0>>}

Channels == {"Camera Info", "Image", "Time"}

\* ------------------------------------------------------------ the camera
\* Ogre::Camera of the render panel: a position (a base point plus the offsets
\* along the pose's right and down axes), an orientation and the custom
\* projection matrix (Null while none was set).
DefaultCamera ==
  [position |-> [base |-> "origin", tx |-> RInt(0), ty |-> RInt(0)],
   orientation |-> "identity",
   projection |-> Null]

\* Ogre::Vector3(999999, 999999, 999999) of clear().
ParkedPosition == [base |-> "parked", tx |-> RInt(0), ty |-> RInt(0)]

\* Rectangle2D::setCorners(-1, 1, 1, -1) of onInitialize, as <<zoom_x, zoom_y>>.
FullScreen == <<RInt(1), RInt(1)>>

NoStatus == [c \in Channels |-> [level |-> "None", text |-> ""]]

setStatus(st, level, channel, text) ==
  [st EXCEPT ![channel] = [level |-> level, text |-> text]]

\* ---------------------------------------------------------- updateCamera
validateFloats_OnlyP(msg) == msg.nan # "P"

\* validateFloats(msg): D, K, R and P are all finite.
validateFloats(msg) == msg.nan = "none"

SyncMismatch_IgnoresMode(sync, rviz_time, stamp) == rviz_time # stamp

\* The 'exact' time mode test of updateCamera.
SyncMismatch(sync, rviz_time, stamp) == sync = "exact" /\ rviz_time # stamp

\* img_width / img_height: the CameraInfo's value, or the texture's when it is 0.
ImgDim(info_dim, texture_dim) == IF info_dim = 0 THEN texture_dim ELSE info_dim

Zoom_ShrinksOtherAxis(img_width, img_height, fx, fy, win) ==
  IF win[1] # 0 /\ win[2] # 0
  THEN LET img_aspect == Fl(RDiv(Rat(img_width, fx), Rat(img_height, fy)))
           win_aspect == Fl(Rat(win[1], win[2]))
       IN  IF RGt(img_aspect, win_aspect)
           THEN <<Fl(RMul(Fl(RDiv(RInt(1), img_aspect)), win_aspect)), RInt(1)>>
           ELSE <<RInt(1), Fl(RMul(Fl(RDiv(RInt(1), win_aspect)), img_aspect))>>
  ELSE <<RInt(1), RInt(1)>>

\* "Preserve aspect ratio": <<zoom_x, zoom_y>>. img_aspect, a quotient of
\* doubles, is stored in a float; win_aspect, zoom / aspect and its product with
\* the other aspect are operations on floats.
Zoom(img_width, img_height, fx, fy, win) ==
  IF win[1] # 0 /\ win[2] # 0
  THEN LET img_aspect == Fl(RDiv(Rat(img_width, fx), Rat(img_height, fy)))
           win_aspect == Fl(Rat(win[1], win[2]))
       IN  IF RGt(img_aspect, win_aspect)
           THEN <<RInt(1), Fl(RMul(Fl(RDiv(RInt(1), img_aspect)), win_aspect))>>
           ELSE <<Fl(RMul(Fl(RDiv(RInt(1), win_aspect)), img_aspect)), RInt(1)>>
  ELSE <<RInt(1), RInt(1)>>

\* getTransform() and the vision-to-ogre rotation. The call's result is not
\* looked at: after a failed lookup `position` holds an unspecified value and
\* `orientation` the identity.
LookupPose(tf) ==
  [base |-> IF tf = "ok" THEN "tf" ELSE "unresolved",
   finite |-> tf # "fail_nan",
   orientation |-> IF tf = "ok" THEN "tf*rotX180" ELSE "identity*rotX180"]

far_plane == 100
near_plane == Rat(1, 100)

\* "calculate the projection matrix": the non-zero entries of proj_matrix.
ProjMatrix(info, img_width, img_height, zoom) ==
  LET fx == P(info, 0)
      fy == P(info, 5)
      cx == P(info, 2)
      cy == P(info, 6)
      far == RInt(far_plane)
      span == RSub(far, near_plane)
  IN  [m00 |-> RMul(Rat(2 * fx, img_width), zoom[1]),
       m11 |-> RMul(Rat(2 * fy, img_height), zoom[2]),
       m02 |-> RMul(RMul(RInt(2), RSub(Rat(1, 2), Rat(cx, img_width))), zoom[1]),
       m12 |-> RMul(RMul(RInt(2), RSub(Rat(cy, img_height), Rat(1, 2))), zoom[2]),
       m22 |-> RNeg(RDiv(RSub(far, RNeg(near_plane)), span)),
       m23 |-> RDiv(RMul(RMul(RInt(-2), far), near_plane), span),
       m32 |-> RInt(-1)]

\* A 'return false' of updateCamera: every one of them comes before the first
\* setter of the camera and of the screen rectangles.
Rejected_ParksCamera(in, outcome, st) ==
  [ok |-> FALSE, outcome |-> outcome,
   camera |-> [in.camera EXCEPT !.position = ParkedPosition],
   bg |-> in.bg, fg |-> in.fg, status |-> st]

Rejected(in, outcome, st) ==
  [ok |-> FALSE, outcome |-> outcome,
   camera |-> in.camera, bg |-> in.bg, fg |-> in.fg, status |-> st]

\* updateCamera() after its snapshot. `in` holds the snapshot (info, image), the
\* texture's and the panel's dimensions, what the frame manager answers (sync,
\* rviz_time, tf) and the objects the call writes (camera, bg, fg, status).
updateCamera(in) ==
  IF in.info = Null \/ in.image = Null
  THEN Rejected(in, "missing", in.status)
  ELSE
  LET info == in.info[1]
      image == in.image[1]
  IN
  IF ~validateFloats(info)
  THEN Rejected(in, "floats",
         setStatus(in.status, "Error", "Camera Info", "invalid floating point values"))
  ELSE IF SyncMismatch(in.sync, in.rviz_time, image.stamp)
  THEN Rejected(in, "sync",
         setStatus(in.status, "Warn", "Time", "no image at timestamp"))
  ELSE
  LET pose == LookupPose(in.tf)
      img_width == ImgDim(info.width, in.texture_width)
      img_height == ImgDim(info.height, in.texture_height)
  IN
  IF img_height = 0 \/ img_width = 0
  THEN Rejected(in, "dimensions",
         setStatus(in.status, "Error", "Camera Info", "malformed CameraInfo"))
  ELSE
  LET fx == P(info, 0)
      fy == P(info, 5)
      zoom == Zoom(img_width, img_height, fx, fy, in.win)
      tx == RNeg(Rat(P(info, 3), fx))
      ty == RNeg(Rat(P(info, 7), fy))
      position == [base |-> pose.base, tx |-> tx, ty |-> ty]
  IN
  IF ~(pose.finite /\ RFinite(tx) /\ RFinite(ty))
  THEN Rejected(in, "position",
         setStatus(in.status, "Error", "Camera Info", "invalid position calculation"))
  ELSE
    [ok |-> TRUE, outcome |-> "ok",
     camera |-> [position |-> position,
                 orientation |-> pose.orientation,
                 projection |-> Ptr(ProjMatrix(info, img_width, img_height, zoom))],
     bg |-> zoom, fg |-> zoom,
     status |-> setStatus(setStatus(in.status, "Ok", "Time", "ok"),
                          "Ok", "Camera Info", "ok")]

\* ----------------------------------------------------------- VideoPublisher
\* The order of two uint values.
UIntLess(a, b) == a[1] < b[1] \/ (a[1] = b[1] /\ a[2] < b[2])

NextImageId_Stuck(id) == id

\* image_id_++ on a uint.
NextImageId(id) ==
  IF id[2] + 1 < UIntHalf THEN <<id[1], id[2] + 1>>
  ELSE IF id[1] + 1 < UIntHalf THEN <<id[1] + 1, 0>>
  ELSE <<0, 0>>

publishFrame_NoTopicTest(advertised, id, frames, buffers) ==
  [image_id |-> NextImageId(id), published |-> Append(frames, id),
   allocated |-> buffers + 1, sent |-> TRUE]

\* publishFrame(): nothing without a topic; else one buffer allocated and one
\* message, stamped with the counter, published.
publishFrame(advertised, id, frames, buffers) ==
  IF ~advertised
  THEN [image_id |-> id, published |-> frames, allocated |-> buffers, sent |-> FALSE]
  ELSE [image_id |-> NextImageId(id), published |-> Append(frames, id),
        allocated |-> buffers + 1, sent |-> TRUE]

\* Ogre::PixelUtil::getNumElemBytes(pf) of the window's pixel format, the 3 bytes
\* of the RGB8 the message is labelled with.
pixelsize == 3

\* publishFrame()'s size query and allocation on a window of size w: width,
\* height, datasize = width * height * pixelsize, and the datasize * 1.05 bytes
\* of the buffer, a double cut to a whole number of bytes.
CaptureQuery(w) ==
  LET datasize == w[1] * w[2] * pixelsize
  IN  [width |-> w[1], height |-> w[2], datasize |-> datasize,
       bytes |-> (datasize * 105) \div 100]

\* copyContentsToMemory(pb), run on a window of size w: what is read back is the
\* window's contents of that moment.
copyContentsToMemory(query, w) == [query |-> query, read |-> Ptr(w)]

\* ------------------------------------------------------------ ROSImageTexture
NoTexture == [image |-> Null, new_image |-> FALSE, width |-> 0, height |-> 0]

\* texture_.update(): FALSE without a new image; an unsupported encoding throws
\* UnsupportedImageEncoding; else the image is loaded and its size kept.
textureUpdate(tex) ==
  IF tex.image = Null \/ ~tex.new_image
  THEN [texture |-> tex, result |-> "false"]
  ELSE IF tex.image[1].encoding = "unsupported"
  THEN [texture |-> [tex EXCEPT !.new_image = FALSE], result |-> "throw"]
  ELSE [texture |-> [tex EXCEPT !.new_image = FALSE,
                                !.width = tex.image[1].width,
                                !.height = tex.image[1].height],
        result |-> "true"]

\* ------------------------------------------------------ render-pass listeners
preRenderVisible_IgnoresCamera(ok, position) ==
  <<position \in {BACKGROUND, BOTH}, position \in {OVERLAY, BOTH}>>

\* preRenderTargetUpdate(): <<background visible, overlay visible>>.
preRenderVisible(ok, position) ==
  <<ok /\ position \in {BACKGROUND, BOTH}, ok /\ position \in {OVERLAY, BOTH}>>

postRenderVisible_KeepsBackground(bg, fg) == <<bg, FALSE>>

\* postRenderTargetUpdate(): both scene nodes hidden.
postRenderVisible(bg, fg) == <<FALSE, FALSE>>

\* updateCamera's locals outside the call.
NoSnapshot == [info |-> Null, image |-> Null]

\* ------------------------------------------------------------------ state
VARIABLES
  life,              \* "constructed", "initialized", "enabled", "disabled"
  topic_empty,       \* topic_property_->getTopicStd().empty()
  image_sub,         \* ImageDisplayBase's image subscription is active
  caminfo_sub,       \* caminfo_sub_ is subscribed
  advertised,        \* pub_.getTopic() != ""
  window_active,     \* the render window's active flag
  image_position,    \* image_position_property_
  win,               \* the render panel's <<width, height>>
  force_render_, new_caminfo_, caminfo_ok_,
  current_caminfo_,  \* Null or Ptr(a CameraInfo)
  texture_,          \* the ROSImageTexture
  camera,            \* render_panel_->getCamera()
  bg_screen_rect_, fg_screen_rect_,   \* the rectangles' corners, as <<zoom_x, zoom_y>>
  bg_visible, fg_visible,             \* bg_scene_node_ / fg_scene_node_ visibility
  status,            \* the status slots
  image_id_,         \* VideoPublisher's counter
  published,         \* header.seq of every message published, in order
  allocated,         \* capture buffers allocated so far
  pc,                \* the render thread: "idle", or where it is in update()
  snap,              \* updateCamera's locals info and image
  caminfo_mutex_,    \* "free", "render" or "callback"
  cb_pc,             \* the callback thread: "idle", or "waiting" / "locked" in caminfoCallback
  capture,           \* Null, or the capture of this update()'s publishFrame()
  \* history
  tick,              \* Null, or what the update() in progress decided
  att,               \* Null, or the updateCamera() call of the update() in progress
  last_result,       \* Null, or the result of the latest updateCamera() call
  resolved,          \* Null, or the outcome of the latest updateCamera() call made
                     \* since the latest clear()
  caminfo_changed,   \* a caminfoCallback ran since the latest snapshot
  pub_calls,         \* publishFrame() calls made with a topic
  last_publish       \* "none", or what this update()'s publishFrame() did: "noop", "sent"

vars ==
  <<life, topic_empty, image_sub, caminfo_sub, advertised, window_active,
    image_position, win, force_render_, new_caminfo_, caminfo_ok_,
    current_caminfo_, texture_, camera, bg_screen_rect_, fg_screen_rect_,
    bg_visible, fg_visible, status, image_id_, published, allocated, pc, snap,
    caminfo_mutex_, cb_pc, capture, tick, att, last_result, resolved,
    caminfo_changed, pub_calls, last_publish>>

config == <<topic_empty, win>>
subs == <<image_sub, caminfo_sub, advertised>>
resolver == <<camera, bg_screen_rect_, fg_screen_rect_>>
visible == <<bg_visible, fg_visible>>
publisher == <<image_id_, published, allocated, pub_calls, last_publish, capture>>
cache == <<new_caminfo_, current_caminfo_, caminfo_changed>>
callback == <<caminfo_mutex_, cb_pc>>
history == <<tick, att, last_result, resolved>>

\* The constructors of CameraPub and VideoPublisher; the topic is configuration.
Init ==
  /\ life = "constructed"
  /\ topic_empty \in BOOLEAN
  /\ image_sub = FALSE /\ caminfo_sub = FALSE /\ advertised = FALSE
  /\ window_active = FALSE
  /\ image_position = BOTH
  /\ win = InitialWin
  /\ force_render_ = FALSE /\ new_caminfo_ = FALSE /\ caminfo_ok_ = FALSE
  /\ current_caminfo_ = Null
  /\ texture_ = NoTexture
  /\ camera = DefaultCamera
  /\ bg_screen_rect_ = FullScreen /\ fg_screen_rect_ = FullScreen
  /\ bg_visible = FALSE /\ fg_visible = FALSE
  /\ status = NoStatus
  /\ image_id_ = <<0, 0>> /\ published = <<>> /\ allocated = 0
  /\ pc = "idle" /\ snap = NoSnapshot
  /\ caminfo_mutex_ = "free" /\ cb_pc = "idle"
  /\ tick = Null /\ att = Null /\ last_result = Null /\ resolved = Null
  /\ caminfo_changed = FALSE /\ pub_calls = 0 /\ last_publish = "none"
  /\ capture = Null

\* ---------------------------------------------------- lifecycle and slots
\* onInitialize(): the rectangles, hidden; updateAlpha(); the render panel,
\* inactive, 640x480.
onInitialize ==
  /\ life = "constructed" /\ pc = "idle"
  /\ life' = "initialized"
  /\ bg_screen_rect_' = FullScreen /\ fg_screen_rect_' = FullScreen
  /\ bg_visible' = FALSE /\ fg_visible' = FALSE
  /\ force_render_' = TRUE
  /\ window_active' = FALSE
  /\ win' = InitialWin
  /\ UNCHANGED <<topic_empty, subs, image_position, new_caminfo_, caminfo_ok_,
                 current_caminfo_, texture_, camera, status, publisher, pc, snap,
                 callback, history, caminfo_changed>>

onEnable_WindowLeftInactive ==
  /\ life \in {"initialized", "disabled"} /\ pc = "idle"
  /\ life' = "enabled"
  /\ IF topic_empty
     THEN UNCHANGED <<subs, status>>
     ELSE /\ image_sub' = TRUE
          /\ advertised' = TRUE
          /\ caminfo_sub' = TRUE
          /\ status' = setStatus(status, "Ok", "Camera Info", "OK")
  /\ window_active' = ~topic_empty
  /\ UNCHANGED <<config, image_position, force_render_, caminfo_ok_, cache, texture_,
                 resolver, visible, publisher, pc, snap, callback, history>>

\* onEnable(): subscribe(), then the window is set active. subscribe() returns
\* at once on an empty topic; subscribing to the camera info may throw.
onEnable ==
  /\ life \in {"initialized", "disabled"} /\ pc = "idle"
  /\ life' = "enabled"
  /\ IF topic_empty
     THEN UNCHANGED <<subs, status>>
     ELSE /\ image_sub' = TRUE
          /\ advertised' = TRUE
          /\ \E thrown \in BOOLEAN :
               IF thrown
               THEN /\ caminfo_sub' = caminfo_sub
                    /\ status' = setStatus(status, "Error", "Camera Info", "Error subscribing")
               ELSE /\ caminfo_sub' = TRUE
                    /\ status' = setStatus(status, "Ok", "Camera Info", "OK")
  /\ window_active' = TRUE
  /\ UNCHANGED <<config, image_position, force_render_, caminfo_ok_, cache, texture_,
                 resolver, visible, publisher, pc, snap, callback, history>>

clear_KeepsCaminfo(st) ==
  /\ texture_' = [texture_ EXCEPT !.image = Null, !.new_image = FALSE]
  /\ force_render_' = TRUE
  /\ new_caminfo_' = FALSE
  /\ current_caminfo_' = current_caminfo_
  /\ status' = setStatus(setStatus(st, "Warn", "Camera Info", "No CameraInfo received"),
                         "Warn", "Image", "No Image received")
  /\ camera' = [camera EXCEPT !.position = ParkedPosition]
  /\ resolved' = Null

\* clear(), as the part of a step that runs it; st holds the status slots the
\* call finds. Neither write of the cache takes caminfo_mutex_.
clear(st) ==
  /\ texture_' = [texture_ EXCEPT !.image = Null, !.new_image = FALSE]
  /\ force_render_' = TRUE
  /\ new_caminfo_' = FALSE
  /\ current_caminfo_' = Null
  /\ status' = setStatus(setStatus(st, "Warn", "Camera Info", "No CameraInfo received"),
                         "Warn", "Image", "No Image received")
  /\ camera' = [camera EXCEPT !.position = ParkedPosition]
  /\ resolved' = Null

\* onDisable(): window inactive, unsubscribe() (publisher shut down, both
\* subscriptions dropped), clear().
onDisable ==
  /\ life = "enabled" /\ pc = "idle"
  /\ life' = "disabled"
  /\ window_active' = FALSE
  /\ advertised' = FALSE /\ image_sub' = FALSE /\ caminfo_sub' = FALSE
  /\ clear(status)
  /\ UNCHANGED <<config, image_position, caminfo_ok_, caminfo_changed,
                 bg_screen_rect_, fg_screen_rect_, visible, publisher, pc, snap,
                 callback, tick, att, last_result>>

\* reset(): ImageDisplayBase::reset(), which deletes the status slots and
\* leaves the subscriptions alone, then clear().
reset ==
  /\ life # "constructed" /\ pc = "idle"
  /\ clear(NoStatus)
  /\ UNCHANGED <<life, config, subs, window_active, image_position, caminfo_ok_,
                 caminfo_changed, bg_screen_rect_, fg_screen_rect_, visible,
                 publisher, pc, snap, callback, tick, att, last_result>>

\* The "Image Rendering" property is changed: its slot is forceRender().
forceRender ==
  /\ life # "constructed" /\ pc = "idle"
  /\ \E m \in Modes \ {image_position} : image_position' = m
  /\ force_render_' = TRUE
  /\ UNCHANGED <<life, config, subs, window_active, caminfo_ok_, cache, texture_,
                 resolver, visible, status, publisher, pc, snap, callback, history>>

\* ------------------------------------------------------- callback thread
\* processMessage(): texture_.addMessage(msg).
processMessage ==
  /\ image_sub
  /\ \E msg \in Images :
       texture_' = [texture_ EXCEPT !.image = Ptr(msg), !.new_image = TRUE]
  /\ UNCHANGED <<life, config, subs, window_active, image_position, force_render_,
                 caminfo_ok_, cache, resolver, visible, status, publisher, pc, snap,
                 callback, history>>

\* caminfoCallback() is called with a message, and waits for the mutex ...
caminfoCallback ==
  /\ caminfo_sub /\ cb_pc = "idle"
  /\ cb_pc' = "waiting"
  /\ UNCHANGED <<life, config, subs, window_active, image_position, force_render_,
                 caminfo_ok_, cache, texture_, resolver, visible, status, publisher,
                 pc, snap, caminfo_mutex_, history>>

\* ... the scoped lock is taken ...
caminfoCallbackLock ==
  /\ cb_pc = "waiting" /\ caminfo_mutex_ = "free"
  /\ caminfo_mutex_' = "callback" /\ cb_pc' = "locked"
  /\ UNCHANGED <<life, config, subs, window_active, image_position, force_render_,
                 caminfo_ok_, cache, texture_, resolver, visible, status, publisher,
                 pc, snap, history>>

\* ... the message is stored, and the lock released.
caminfoCallbackStore ==
  /\ cb_pc = "locked"
  /\ \E msg \in Infos : current_caminfo_' = Ptr(msg)
  /\ new_caminfo_' = TRUE
  /\ caminfo_changed' = TRUE
  /\ caminfo_mutex_' = "free" /\ cb_pc' = "idle"
  /\ UNCHANGED <<life, config, subs, window_active, image_position, force_render_,
                 caminfo_ok_, texture_, resolver, visible, status, publisher, pc,
                 snap, history>>

\* -------------------------------------------------------------- update()
\* update(): texture_.update() || force_render_ decides whether updateCamera()
\* is called; an UnsupportedImageEncoding is caught and reported.
updateUnbounded ==
  /\ life # "constructed" /\ pc = "idle"
  /\ LET r == textureUpdate(texture_)
         attempt == r.result # "throw" /\ (r.result = "true" \/ force_render_)
     IN  /\ texture_' = r.texture
         /\ status' = IF r.result = "throw"
                      THEN setStatus(status, "Error", "Image", "unsupported encoding")
                      ELSE status
         /\ pc' = IF attempt THEN "lock" ELSE "render"
         /\ tick' = Ptr([decoded |-> r.result = "true", threw |-> r.result = "throw",
                         forced |-> force_render_, info_changed |-> caminfo_changed,
                         attempt |-> attempt,
                         inputs |-> current_caminfo_ # Null /\ texture_.image # Null,
                         before |-> resolved])
  /\ UNCHANGED <<life, config, subs, window_active, image_position, force_render_,
                 caminfo_ok_, cache, resolver, visible, publisher, snap, callback,
                 att, last_result, resolved>>

\* update(), while fewer than MaxFrames frames were published.
update == Len(published) < MaxFrames /\ updateUnbounded

\* updateCamera(): the scoped lock on caminfo_mutex_ is taken ...
updateCameraLock ==
  /\ pc = "lock" /\ caminfo_mutex_ = "free"
  /\ caminfo_mutex_' = "render" /\ pc' = "locked"
  /\ UNCHANGED <<life, config, subs, window_active, image_position, force_render_,
                 caminfo_ok_, cache, texture_, resolver, visible, status, publisher,
                 snap, cb_pc, history>>

updateCameraSnapshot_KeepsLock ==
  /\ pc = "locked"
  /\ snap' = [info |-> current_caminfo_, image |-> texture_.image]
  /\ caminfo_changed' = FALSE
  /\ pc' = "compute"
  /\ UNCHANGED <<life, config, subs, window_active, image_position, force_render_,
                 caminfo_ok_, new_caminfo_, current_caminfo_, texture_, resolver,
                 visible, status, publisher, callback, history>>

\* ... info and image are copied, and the lock released.
updateCameraSnapshot ==
  /\ pc = "locked"
  /\ snap' = [info |-> current_caminfo_, image |-> texture_.image]
  /\ caminfo_changed' = FALSE
  /\ caminfo_mutex_' = "free" /\ pc' = "compute"
  /\ UNCHANGED <<life, config, subs, window_active, image_position, force_render_,
                 caminfo_ok_, new_caminfo_, current_caminfo_, texture_, resolver,
                 visible, status, publisher, cb_pc, history>>

\* The rest of updateCamera(), and update()'s caminfo_ok_ = ...; force_render_ = false,
\* with the frame manager answering one of `answers`.
resolve(answers) ==
  /\ pc = "compute"
  /\ \E a \in answers :
       LET in == [info |-> snap.info, image |-> snap.image,
                  texture_width |-> texture_.width, texture_height |-> texture_.height,
                  win |-> win, sync |-> a.sync, rviz_time |-> a.rviz_time, tf |-> a.tf,
                  camera |-> camera, bg |-> bg_screen_rect_, fg |-> fg_screen_rect_,
                  status |-> status]
           r == updateCamera(in)
       IN  /\ camera' = r.camera
           /\ bg_screen_rect_' = r.bg /\ fg_screen_rect_' = r.fg
           /\ status' = r.status
           /\ caminfo_ok_' = r.ok
           /\ att' = Ptr([in |-> in, ok |-> r.ok, outcome |-> r.outcome])
           /\ last_result' = Ptr(r.ok)
           /\ resolved' = Ptr(r.outcome)
  /\ force_render_' = FALSE
  /\ snap' = NoSnapshot
  /\ pc' = "render"
  /\ UNCHANGED <<life, config, subs, window_active, image_position, cache, texture_,
                 visible, publisher, callback, tick>>

updateCameraResolve == resolve(Answers)

\* render_panel_->getRenderWindow()->update() begins the pass: preRenderTargetUpdate().
preRenderTargetUpdate ==
  /\ pc = "render"
  /\ LET v == preRenderVisible(caminfo_ok_, image_position)
     IN  bg_visible' = v[1] /\ fg_visible' = v[2]
  /\ pc' = "inPass"
  /\ UNCHANGED <<life, config, subs, window_active, image_position, force_render_,
                 caminfo_ok_, cache, texture_, resolver, status, publisher, snap,
                 callback, history>>

\* The pass ends: postRenderTargetUpdate() hides both nodes and publishes the frame.
postRenderTargetUpdate ==
  /\ pc = "inPass"
  /\ LET v == postRenderVisible(bg_visible, fg_visible)
     IN  bg_visible' = v[1] /\ fg_visible' = v[2]
  /\ LET r == publishFrame(advertised, image_id_, published, allocated)
     IN  /\ image_id_' = r.image_id
         /\ published' = r.published
         /\ allocated' = r.allocated
         /\ pub_calls' = IF advertised THEN pub_calls + 1 ELSE pub_calls
         /\ last_publish' = IF r.sent THEN "sent" ELSE "noop"
         /\ capture' = IF r.sent THEN Ptr(copyContentsToMemory(CaptureQuery(win), win))
                        ELSE Null
  /\ pc' = "return"
  /\ UNCHANGED <<life, config, subs, window_active, image_position, force_render_,
                 caminfo_ok_, cache, texture_, resolver, status, snap, callback,
                 history>>

\* update() returns: the render thread is free for the next handler.
updateReturn ==
  /\ pc = "return"
  /\ pc' = "idle"
  /\ tick' = Null /\ att' = Null /\ last_publish' = "none" /\ capture' = Null
  /\ UNCHANGED <<life, config, subs, window_active, image_position, force_render_,
                 caminfo_ok_, cache, texture_, resolver, visible, status, image_id_,
                 published, allocated, pub_calls, snap, callback, last_result,
                 resolved>>

Next ==
  \/ onInitialize
  \/ onEnable
  \/ onDisable
  \/ reset
  \/ forceRender
  \/ processMessage
  \/ caminfoCallback
  \/ caminfoCallbackLock
  \/ caminfoCallbackStore
  \/ update
  \/ updateCameraLock
  \/ updateCameraSnapshot
  \/ updateCameraResolve
  \/ preRenderTargetUpdate
  \/ postRenderTargetUpdate
  \/ updateReturn

Spec == Init /\ [][Next]_vars

\* ------------------------------------------------------------ SpecResolve
\* One updateCamera() call on every snapshot, texture size, panel size and
\* earlier camera, with every answer of the frame manager: the display is
\* enabled and update() has just copied info and image.
PriorCameras ==
  { [DefaultCamera EXCEPT !.position = ParkedPosition],
    [position |-> [base |-> "tf", tx |-> RInt(0), ty |-> RInt(0)],
     orientation |-> "tf*rotX180",
     projection |-> Ptr(ProjMatrix(MkInfo(4, 2, "none", 1, 1, 0), 4, 2,
                                   <<RInt(1), Rat(2, 3)>>))] }

InitResolve ==
  /\ life = "enabled"
  /\ topic_empty = FALSE
  /\ image_sub = TRUE /\ caminfo_sub = TRUE /\ advertised = TRUE
  /\ window_active = TRUE
  /\ image_position = BOTH
  /\ win \in WinSizes
  /\ force_render_ = TRUE
  /\ caminfo_ok_ \in BOOLEAN
  /\ snap \in [info : {Null} \cup {Ptr(i) : i \in ResolverInfos},
               image : {Null} \cup {Ptr(i) : i \in ResolverImages}]
  /\ current_caminfo_ = snap.info
  /\ new_caminfo_ = (snap.info # Null)
  /\ \E size \in {<<0, 0>>, <<4, 2>>} :
       texture_ = [image |-> snap.image, new_image |-> FALSE,
                   width |-> size[1], height |-> size[2]]
  /\ camera \in PriorCameras
  /\ bg_screen_rect_ = (IF camera.projection = Null THEN FullScreen
                        ELSE <<RInt(1), Rat(2, 3)>>)
  /\ fg_screen_rect_ = bg_screen_rect_
  /\ bg_visible = FALSE /\ fg_visible = FALSE
  /\ status = setStatus(setStatus(NoStatus, "Warn", "Camera Info", "No CameraInfo received"),
                        "Warn", "Image", "No Image received")
  /\ image_id_ = <<0, 0>> /\ published = <<>> /\ allocated = 0
  /\ pc = "compute"
  /\ caminfo_mutex_ = "free" /\ cb_pc = "idle"
  /\ tick = Ptr([decoded |-> FALSE, threw |-> FALSE, forced |-> TRUE,
                 info_changed |-> FALSE, attempt |-> TRUE,
                 inputs |-> snap.info # Null /\ snap.image # Null,
                 before |-> Null])
  /\ att = Null
  /\ last_result = Ptr(caminfo_ok_)
  /\ resolved = Null
  /\ caminfo_changed = FALSE /\ pub_calls = 0 /\ last_publish = "none"
  /\ capture = Null

updateCameraResolveAny == resolve(ResolverAnswers)

NextResolve ==
  \/ updateCameraResolveAny
  \/ preRenderTargetUpdate
  \/ postRenderTargetUpdate
  \/ updateReturn

SpecResolve == InitResolve /\ [][NextResolve]_vars

\* --------------------------------------------------------------- SpecLive
\* The enabled display with update() called for ever. The frames are published
\* and not recorded: publishFrame()'s counter and the history of the stream are
\* left as they are, which nothing but publishFrame() reads.
postRenderTargetUpdateUnrecorded ==
  /\ pc = "inPass"
  /\ LET v == postRenderVisible(bg_visible, fg_visible)
     IN  bg_visible' = v[1] /\ fg_visible' = v[2]
  /\ pc' = "return"
  /\ UNCHANGED <<life, config, subs, window_active, image_position, force_render_,
                 caminfo_ok_, cache, texture_, resolver, status, publisher, snap,
                 callback, history>>

\* The state after onInitialize() and onEnable() on a display with a topic
\* set: subscribed, advertised, the render panel active, a render forced by
\* onInitialize()'s updateAlpha(), nothing received yet.
InitLive ==
  /\ life = "enabled"
  /\ topic_empty = FALSE
  /\ image_sub = TRUE /\ caminfo_sub = TRUE /\ advertised = TRUE
  /\ window_active = TRUE
  /\ image_position = BOTH
  /\ win = InitialWin
  /\ force_render_ = TRUE /\ new_caminfo_ = FALSE /\ caminfo_ok_ = FALSE
  /\ current_caminfo_ = Null
  /\ texture_ = NoTexture
  /\ camera = DefaultCamera
  /\ bg_screen_rect_ = FullScreen /\ fg_screen_rect_ = FullScreen
  /\ bg_visible = FALSE /\ fg_visible = FALSE
  /\ status = setStatus(NoStatus, "Ok", "Camera Info", "OK")
  /\ image_id_ = <<0, 0>> /\ published = <<>> /\ allocated = 0
  /\ pc = "idle" /\ snap = NoSnapshot
  /\ caminfo_mutex_ = "free" /\ cb_pc = "idle"
  /\ tick = Null /\ att = Null /\ last_result = Null /\ resolved = Null
  /\ caminfo_changed = FALSE /\ pub_calls = 0 /\ last_publish = "none"
  /\ capture = Null

NextLive ==
  \/ forceRender
  \/ processMessage
  \/ caminfoCallback
  \/ caminfoCallbackLock
  \/ caminfoCallbackStore
  \/ updateUnbounded
  \/ updateCameraLock
  \/ updateCameraSnapshot
  \/ updateCameraResolve
  \/ preRenderTargetUpdate
  \/ postRenderTargetUpdateUnrecorded
  \/ updateReturn

\* The step of update() from the end of the snapshot to the render pass, seen
\* on pc alone: updateCameraResolve is the one step that takes it, and it can
\* be taken whenever pc = "compute".
updateCameraResolveStep == pc = "compute" /\ pc' = "render"

\* rviz calls update() on every cycle of its render loop, and a call runs to
\* its end; a thread that waits for caminfo_mutex_ gets it once it is free
\* often enough: the other thread holds it for one assignment or two at a time.
LiveFairness ==
  /\ WF_vars(updateUnbounded)
  /\ SF_vars(updateCameraLock)
  /\ WF_vars(updateCameraSnapshot)
  /\ WF_pc(updateCameraResolveStep)
  /\ WF_vars(preRenderTargetUpdate)
  /\ WF_vars(postRenderTargetUpdateUnrecorded)
  /\ WF_vars(updateReturn)
  /\ SF_vars(caminfoCallbackLock)
  /\ WF_vars(caminfoCallbackStore)

SpecLive == InitLive /\ [][NextLive]_vars /\ LiveFairness

\* --------------------------------------------------------------- SpecZoom
\* One updateCamera() call on every image size, pair of focal lengths and panel
\* size up to the bounds, with an image cached and the pose resolved.
ZoomInfos ==
  { MkInfo(w, h, "none", fx, fy, 0) :
      w \in 1..MaxDim, h \in 1..MaxDim, fx \in 1..MaxFocal, fy \in 1..MaxFocal }

ZoomWinSizes == { <<w, h>> : w \in 0..MaxDim, h \in 0..MaxDim }

InitZoom ==
  /\ life = "enabled"
  /\ topic_empty = FALSE
  /\ image_sub = TRUE /\ caminfo_sub = TRUE /\ advertised = TRUE
  /\ window_active = TRUE
  /\ image_position = BOTH
  /\ win \in ZoomWinSizes
  /\ force_render_ = TRUE
  /\ caminfo_ok_ = FALSE
  /\ \E i \in ZoomInfos : snap = [info |-> Ptr(i), image |-> Ptr(MkImage(1, "rgb8"))]
  /\ current_caminfo_ = snap.info
  /\ new_caminfo_ = TRUE
  /\ texture_ = [image |-> snap.image, new_image |-> FALSE, width |-> 4, height |-> 2]
  /\ camera = [DefaultCamera EXCEPT !.position = ParkedPosition]
  /\ bg_screen_rect_ = FullScreen /\ fg_screen_rect_ = FullScreen
  /\ bg_visible = FALSE /\ fg_visible = FALSE
  /\ status = setStatus(setStatus(NoStatus, "Warn", "Camera Info", "No CameraInfo received"),
                        "Warn", "Image", "No Image received")
  /\ image_id_ = <<0, 0>> /\ published = <<>> /\ allocated = 0
  /\ pc = "compute"
  /\ caminfo_mutex_ = "free" /\ cb_pc = "idle"
  /\ tick = Ptr([decoded |-> TRUE, threw |-> FALSE, forced |-> TRUE,
                 info_changed |-> FALSE, attempt |-> TRUE, inputs |-> TRUE,
                 before |-> Null])
  /\ att = Null
  /\ last_result = Null
  /\ resolved = Null
  /\ caminfo_changed = FALSE /\ pub_calls = 0 /\ last_publish = "none"
  /\ capture = Null

updateCameraResolveZoom == resolve({MkAnswer("approx", 1, "ok")})

NextZoom ==
  \/ updateCameraResolveZoom
  \/ preRenderTargetUpdate
  \/ postRenderTargetUpdate
  \/ updateReturn

SpecZoom == InitZoom /\ [][NextZoom]_vars

\* ------------------------------------------------------------ SpecCapture
\* postRenderTargetUpdate() cut at publishFrame()'s two reads of the window,
\* the size query and copyContentsToMemory(), with the window resized in
\* between: the display is enabled, advertised, and a render pass is ending.
CaptureSizes == {<<w, h>> : w \in 1..MaxDim, h \in 1..MaxDim}

InitCapture ==
  /\ life = "enabled"
  /\ topic_empty = FALSE
  /\ image_sub = TRUE /\ caminfo_sub = TRUE /\ advertised = TRUE
  /\ window_active = TRUE
  /\ image_position = BOTH
  /\ win \in CaptureSizes
  /\ force_render_ = FALSE /\ new_caminfo_ = FALSE /\ caminfo_ok_ = FALSE
  /\ current_caminfo_ = Null
  /\ texture_ = NoTexture
  /\ camera = DefaultCamera
  /\ bg_screen_rect_ = FullScreen /\ fg_screen_rect_ = FullScreen
  /\ bg_visible = FALSE /\ fg_visible = FALSE
  /\ status = NoStatus
  /\ image_id_ = <<0, 0>> /\ published = <<>> /\ allocated = 0
  /\ pc = "inPass" /\ snap = NoSnapshot
  /\ caminfo_mutex_ = "free" /\ cb_pc = "idle"
  /\ tick = Ptr([decoded |-> FALSE, threw |-> FALSE, forced |-> TRUE,
                 info_changed |-> FALSE, attempt |-> TRUE, inputs |-> FALSE,
                 before |-> Null])
  /\ att = Null /\ last_result = Ptr(FALSE) /\ resolved = Ptr("missing")
  /\ caminfo_changed = FALSE /\ pub_calls = 0 /\ last_publish = "none"
  /\ capture = Null

\* postRenderTargetUpdate() up to publishFrame()'s allocation: the nodes are
\* hidden, the window's size is read and the buffer allocated.
publishFrameQuery ==
  /\ pc = "inPass" /\ advertised
  /\ LET v == postRenderVisible(bg_visible, fg_visible)
     IN  bg_visible' = v[1] /\ fg_visible' = v[2]
  /\ capture' = Ptr([query |-> CaptureQuery(win), read |-> Null])
  /\ pc' = "capturing"
  /\ UNCHANGED <<life, config, subs, window_active, image_position, force_render_,
                 caminfo_ok_, cache, texture_, resolver, status, snap, callback,
                 history, image_id_, published, allocated, pub_calls, last_publish>>

\* The render window is resized while publishFrame() is between its size query
\* and its read-back.
resize ==
  /\ pc = "capturing"
  /\ \E w \in CaptureSizes \ {win} : win' = w
  /\ UNCHANGED <<life, topic_empty, subs, window_active, image_position, force_render_,
                 caminfo_ok_, cache, texture_, resolver, visible, status, publisher,
                 pc, snap, callback, history>>

\* The rest of publishFrame(): the window is read back, the message published.
publishFrameRead ==
  /\ pc = "capturing"
  /\ capture' = Ptr(copyContentsToMemory(capture[1].query, win))
  /\ LET r == publishFrame(advertised, image_id_, published, allocated)
     IN  /\ image_id_' = r.image_id
         /\ published' = r.published
         /\ allocated' = r.allocated
         /\ pub_calls' = pub_calls + 1
         /\ last_publish' = "sent"
  /\ pc' = "return"
  /\ UNCHANGED <<life, config, subs, window_active, image_position, force_render_,
                 caminfo_ok_, cache, texture_, resolver, visible, status, snap,
                 callback, history>>

NextCapture ==
  \/ publishFrameQuery
  \/ resize
  \/ publishFrameRead
  \/ updateReturn

SpecCapture == InitCapture /\ [][NextCapture]_vars

\* ================================================================ claims
\* The updateCamera() call of the update() in progress, once it has returned.
Resolved == att # Null /\ pc = "render"

\* The call had a camera info and an image to work on.
HadInputs(a) == a.in.info # Null /\ a.in.image # Null

\* ------------------------------------------------------------------- C1
\* C1: outside a render pass (between preRenderTargetUpdate and
\* postRenderTargetUpdate of the same pass) the background and the overlay
\* scene nodes are both hidden.
C1_HiddenOutsidePass == pc # "inPass" => ~bg_visible /\ ~fg_visible

\* A pass that showed both surfaces has ended.
C1_Witness ==
  pc = "return" /\ caminfo_ok_ /\ image_position = BOTH /\ ~bg_visible /\ ~fg_visible

\* ------------------------------------------------------------------- C2
\* C2: when a render pass begins, the background is visible iff the camera is
\* valid and the mode is background or both, the overlay iff the camera is valid
\* and the mode is overlay or both; the camera is valid iff the latest
\* updateCamera() call returned true.
C2_VisibleIffValidAndMode ==
  pc = "inPass" =>
    /\ bg_visible <=> (caminfo_ok_ /\ image_position \in {BACKGROUND, BOTH})
    /\ fg_visible <=> (caminfo_ok_ /\ image_position \in {OVERLAY, BOTH})
    /\ caminfo_ok_ <=> (last_result # Null /\ last_result[1])

\* A pass in background mode with a valid camera: background shown, overlay not.
C2_Witness == pc = "inPass" /\ bg_visible /\ ~fg_visible

\* ------------------------------------------------------------------- C3
\* C3: every publishFrame() call made with a topic published exactly one
\* message, and each message's sequence id is greater than that of every
\* message published before it.
C3_SeqStrictlyIncreasing ==
  /\ Len(published) = pub_calls
  /\ \A i, j \in 1..Len(published) : i < j => UIntLess(published[i], published[j])

\* Two frames were published.
C3_Witness == Len(published) >= 2 /\ pub_calls >= 2

\* ------------------------------------------------------------------- C4
\* C4: a publishFrame() call made without a topic publishes nothing, allocates
\* no buffer and leaves the sequence counter as it was.
C4_NoTopicNoOp ==
  [][(pc = "inPass" /\ pc' = "return" /\ ~advertised) =>
       (published' = published /\ allocated' = allocated /\ image_id_' = image_id_)]_vars

\* publishFrame() has run without a topic, after a frame was published with one.
C4_Witness == pc = "return" /\ last_publish = "noop" /\ Len(published) >= 1

\* ------------------------------------------------------------------- C5
\* C5: after onDisable() and until the next onEnable(), no render pass starts
\* and no frame is published.
C5_DisabledStopsFrames ==
  life = "disabled" => pc # "inPass" /\ last_publish # "sent"

\* ------------------------------------------------------------------- C6
\* C6: an update() whose decode does not throw calls updateCamera() whenever a
\* camera info was received since the previous call, or a new image was
\* decoded, or force_render_ is set.
C6_TriggersResolve ==
  tick # Null /\ ~tick[1].threw =>
    ((tick[1].info_changed \/ tick[1].decoded \/ tick[1].forced) => tick[1].attempt)

\* ------------------------------------------------------------------- C7
\* Nothing but the pose can make the call fail: a camera info with finite
\* values, dimensions and focal lengths, an image, and a passing time test.
OnlyPoseInDoubt(a) ==
  /\ HadInputs(a)
  /\ a.in.info[1].nan = "none"
  /\ a.in.info[1].width # 0 /\ a.in.info[1].height # 0
  /\ P(a.in.info[1], 0) # 0 /\ P(a.in.info[1], 5) # 0
  /\ (a.in.sync = "approx" \/ a.in.rviz_time = a.in.image[1].stamp)

\* C7: an updateCamera() call whose pose lookup fails returns false, leaves the
\* camera's position, orientation and projection as they were and the camera
\* invalid, and reports a Warn and no Error.
C7_PoseFailureSkips ==
  (Resolved /\ OnlyPoseInDoubt(att[1]) /\ att[1].in.tf # "ok") =>
    /\ ~att[1].ok /\ ~caminfo_ok_
    /\ camera = att[1].in.camera
    /\ \E c \in Channels : status[c].level = "Warn" /\ status[c] # att[1].in.status[c]
    /\ \A c \in Channels : status[c].level = "Error" => status[c] = att[1].in.status[c]

\* ------------------------------------------------------------------- C8
TimeMismatch(a) == a.in.rviz_time # a.in.image[1].stamp

\* The "Time" slot holds the Warn of a rejected timestamp.
TimeWarned == status["Time"].level = "Warn"

\* C8 as stated: in exact mode every call with a camera info and an image whose
\* stamp differs from the reference time is rejected with a Warn on "Time" and
\* leaves the camera invalid; equal times are not rejected for the time;
\* approximate mode never is.
C8_Original ==
  Resolved =>
    LET a == att[1] IN
    /\ (HadInputs(a) /\ a.in.sync = "exact" /\ TimeMismatch(a)) =>
         (~a.ok /\ ~caminfo_ok_ /\ TimeWarned)
    /\ (HadInputs(a) /\ a.in.sync = "exact" /\ ~TimeMismatch(a)) => a.outcome # "sync"
    /\ a.in.sync = "approx" => a.outcome # "sync"

\* C8 amended: the same, for the calls whose camera info holds finite values; a
\* camera info with a NaN or an Inf is rejected before the time is looked at.
C8_ExactSync ==
  Resolved =>
    LET a == att[1] IN
    /\ (HadInputs(a) /\ a.in.info[1].nan = "none" /\ a.in.sync = "exact" /\ TimeMismatch(a)) =>
         (a.outcome = "sync" /\ ~a.ok /\ ~caminfo_ok_ /\ TimeWarned)
    /\ (HadInputs(a) /\ a.in.sync = "exact" /\ ~TimeMismatch(a)) => a.outcome # "sync"
    /\ a.in.sync = "approx" => a.outcome # "sync"

\* A call was rejected for its timestamp.
C8_Witness == Resolved /\ att[1].outcome = "sync" /\ TimeWarned

\* ------------------------------------------------------------------- C9
NoDimensions(a) ==
  /\ a.in.info[1].width = 0 /\ a.in.info[1].height = 0
  /\ a.in.texture_width = 0 /\ a.in.texture_height = 0

CameraInfoError(text) == status["Camera Info"] = [level |-> "Error", text |-> text]

\* C9 as stated: with a camera info and an image, no dimensions anywhere gives
\* the "malformed" Error and a NaN/Inf gives the "invalid floating point" Error,
\* whatever the other inputs are.
C9_Original ==
  (Resolved /\ HadInputs(att[1])) =>
    LET a == att[1] IN
    /\ NoDimensions(a) => (~a.ok /\ CameraInfoError("malformed CameraInfo"))
    /\ a.in.info[1].nan # "none" =>
         (~a.ok /\ CameraInfoError("invalid floating point values"))

\* C9 amended: a NaN/Inf gives the "invalid floating point" Error whatever the
\* other inputs are, missing dimensions included; no dimensions anywhere gives
\* the "malformed" Error when the values are finite and the time test passes,
\* whatever the pose lookup answers.
C9_RejectionClasses ==
  (Resolved /\ HadInputs(att[1])) =>
    LET a == att[1] IN
    /\ a.in.info[1].nan # "none" =>
         (a.outcome = "floats" /\ ~a.ok /\ CameraInfoError("invalid floating point values"))
    /\ (NoDimensions(a) /\ a.in.info[1].nan = "none"
          /\ (a.in.sync = "approx" \/ ~TimeMismatch(a))) =>
         (a.outcome = "dimensions" /\ ~a.ok /\ CameraInfoError("malformed CameraInfo"))

\* A camera info with a NaN and no dimensions was rejected for its NaN, in exact
\* mode with a failing pose lookup.
C9_Witness ==
  /\ Resolved /\ HadInputs(att[1]) /\ NoDimensions(att[1])
  /\ att[1].in.info[1].nan # "none" /\ att[1].outcome = "floats"
  /\ att[1].in.sync = "exact" /\ att[1].in.tf # "ok"

\* ------------------------------------------------------------------ C10
\* C10: an updateCamera() call that returns false leaves the camera's position,
\* orientation and projection matrix and both rectangles' corners as they were;
\* one that returns true has set them all: the two rectangles to the same zoom,
\* the projection matrix to the one of that zoom and of the call's camera info,
\* position and orientation to the ones the call's pose lookup gave.
C10_AllOrNothing ==
  Resolved =>
    LET a == att[1] IN
    /\ caminfo_ok_ = a.ok
    /\ ~a.ok => /\ camera = a.in.camera
                /\ bg_screen_rect_ = a.in.bg /\ fg_screen_rect_ = a.in.fg
    /\ a.ok => /\ fg_screen_rect_ = bg_screen_rect_
               /\ bg_screen_rect_ =
                    Zoom(ImgDim(a.in.info[1].width, a.in.texture_width),
                         ImgDim(a.in.info[1].height, a.in.texture_height),
                         P(a.in.info[1], 0), P(a.in.info[1], 5), a.in.win)
               /\ camera.projection =
                    Ptr(ProjMatrix(a.in.info[1],
                                   ImgDim(a.in.info[1].width, a.in.texture_width),
                                   ImgDim(a.in.info[1].height, a.in.texture_height),
                                   bg_screen_rect_))
               /\ camera.position.base = (IF a.in.tf = "ok" THEN "tf" ELSE "unresolved")
               /\ camera.position.tx = RNeg(Rat(P(a.in.info[1], 3), P(a.in.info[1], 0)))
               /\ camera.orientation # a.in.camera.orientation \/ a.in.tf = "ok"

\* A call that got to the last test, the computed position's, returned false on
\* a camera that had a projection matrix.
C10_Witness ==
  /\ Resolved /\ att[1].outcome = "position" /\ ~att[1].ok
  /\ att[1].in.camera.projection # Null /\ camera = att[1].in.camera

\* ------------------------------------------------------------------ C11
\* The update() in progress failed: its decode threw, or its updateCamera()
\* call returned false.
TickFailed == tick # Null /\ (tick[1].threw \/ (att # Null /\ ~att[1].ok))

\* C11: an update() that failed (non-finite or malformed camera info, no camera
\* info or image, a rejected timestamp, an unsupported encoding) ends with a
\* Warn or Error status set and without a frame published.
C11_FailureSkipsFrame ==
  (pc = "return" /\ TickFailed) =>
    /\ last_publish # "sent"
    /\ \E c \in Channels : status[c].level \in {"Warn", "Error"}

\* ------------------------------------------------------------------ C12
\* C12: after an updateCamera() call that returned false for want of a camera
\* info or an image, every update() that finds both of them cached (and whose
\* decode does not throw) calls updateCamera() again.
C12_RetriesWhenInputsArrive ==
  (tick # Null /\ ~tick[1].threw /\ tick[1].before = Ptr("missing") /\ tick[1].inputs) =>
    tick[1].attempt

\* ------------------------------------------------------------------ C13
\* What clear() leaves: no camera info, no new-data flag, no image, and the
\* 'nothing received' Warn in the "Camera Info" and "Image" slots.
Cleared ==
  /\ current_caminfo_ = Null /\ ~new_caminfo_
  /\ texture_.image = Null /\ ~texture_.new_image
  /\ status["Camera Info"] = [level |-> "Warn", text |-> "No CameraInfo received"]
  /\ status["Image"] = [level |-> "Warn", text |-> "No Image received"]

\* C13: onDisable() leaves the window inactive, the subscriptions and the
\* advertisement dropped and the cache cleared; reset() leaves the cache cleared
\* and the subscriptions, the advertisement and the window's active flag as
\* they were.
C13_DisableAndResetClear ==
  [][/\ onDisable => (~window_active /\ ~image_sub /\ ~caminfo_sub /\ ~advertised
                        /\ Cleared)'
     /\ reset => (Cleared' /\ UNCHANGED <<subs, window_active, life>>)]_vars

\* reset() has emptied a cache that held a camera info and an image, on an
\* enabled display whose subscriptions are still there.
C13_Witness ==
  /\ life = "enabled" /\ Cleared /\ image_sub /\ caminfo_sub /\ advertised
  /\ window_active /\ status["Time"].level = "None" /\ last_result = Ptr(TRUE)
  /\ resolved = Null /\ pc = "idle"

\* ------------------------------------------------------------------ C14
\* The render window is active exactly while the display is enabled.
ActiveIffEnabled == window_active <=> life = "enabled"

\* C14 as stated: onEnable() leaves the image and camera-info subscriptions
\* active, the output advertised and the window active, whatever the topic is
\* and whether subscribing threw; and the window is active iff the display is
\* enabled.
C14_Original ==
  /\ []ActiveIffEnabled
  /\ [][onEnable => (image_sub /\ caminfo_sub /\ advertised /\ window_active)']_vars

\* C14 amended: onEnable() leaves the window active; with a topic it leaves the
\* image subscription active and the output advertised, and the camera-info
\* subscription active unless subscribing threw, which is reported as an Error
\* and leaves it as it was; with an empty topic it subscribes and advertises
\* nothing; and the window is active iff the display is enabled.
C14_EnablePostcondition ==
  /\ []ActiveIffEnabled
  /\ [][onEnable =>
          /\ window_active'
          /\ topic_empty => UNCHANGED <<subs, status>>
          /\ ~topic_empty =>
                /\ image_sub' /\ advertised'
                /\ \/ caminfo_sub' /\ status'["Camera Info"].level = "Ok"
                   \/ /\ caminfo_sub' = caminfo_sub
                      /\ status'["Camera Info"].level = "Error"]_vars

\* The display was enabled with a topic and the camera-info subscription threw.
C14_Witness ==
  /\ life = "enabled" /\ window_active /\ image_sub /\ advertised /\ ~caminfo_sub
  /\ status["Camera Info"].level = "Error"

\* ------------------------------------------------------------------ C17
\* C17: every step that writes current_caminfo_ or new_caminfo_ is taken by a
\* thread that holds caminfo_mutex_: the callback thread in caminfoCallback(),
\* or the render thread.
C17_CacheUnderMutex ==
  [][(current_caminfo_' # current_caminfo_ \/ new_caminfo_' # new_caminfo_) =>
       \/ caminfo_mutex_ = "callback" /\ cb_pc = "locked" /\ cb_pc' = "idle"
       \/ caminfo_mutex_ = "render"]_vars

\* ------------------------------------------------------------------ C19
\* C19: a render pass that begins after clear() shows neither surface unless an
\* updateCamera() call made since that clear() returned true.
C19_NoStaleValidity ==
  (pc = "inPass" /\ resolved # Ptr("ok")) => (~bg_visible /\ ~fg_visible)

\* ------------------------------------------------------------------ C15
\* C15: the buffer publishFrame() allocated holds at least width * height *
\* pixelsize bytes of the window as it is when copyContentsToMemory() reads it.
C15_BufferCoversReadback ==
  (capture # Null /\ capture[1].read # Null) =>
    capture[1].query.bytes >=
      capture[1].read[1][1] * capture[1].read[1][2] * pixelsize

\* ------------------------------------------------------------------ C16
\* The aspects of the claim, as exact quotients: (width / fx) / (height / fy) of
\* the call's image and viewportWidth / viewportHeight of its panel.
ImgAspect(a) ==
  RDiv(Rat(a.in.info[1].width, P(a.in.info[1], 0)),
       Rat(a.in.info[1].height, P(a.in.info[1], 5)))

WinAspect(a) == Rat(a.in.win[1], a.in.win[2])

\* A successful call with positive focal lengths and a panel of some height.
ZoomCase(a) ==
  a.ok /\ P(a.in.info[1], 0) > 0 /\ P(a.in.info[1], 5) > 0 /\ a.in.win[2] # 0

\* Storing r in a float changes nothing.
Exact(r) == Fl(r) = r

\* None of the call's float operations rounds.
NoRounding(a) ==
  /\ Exact(ImgAspect(a)) /\ Exact(WinAspect(a))
  /\ IF RGt(ImgAspect(a), WinAspect(a))
     THEN /\ Exact(RDiv(RInt(1), ImgAspect(a)))
          /\ Exact(RDiv(WinAspect(a), ImgAspect(a)))
     ELSE /\ Exact(RDiv(RInt(1), WinAspect(a)))
          /\ Exact(RDiv(ImgAspect(a), WinAspect(a)))

\* The three cases of the claim, on the zoom the call left in the rectangles.
AspectCases(a) ==
  LET zoom_x == bg_screen_rect_[1]
      zoom_y == bg_screen_rect_[2]
  IN  /\ RGt(ImgAspect(a), WinAspect(a)) => (RGt(zoom_x, zoom_y) /\ zoom_x = RInt(1))
      /\ RGt(WinAspect(a), ImgAspect(a)) => (RGt(zoom_y, zoom_x) /\ zoom_y = RInt(1))
      /\ ImgAspect(a) = WinAspect(a) => (zoom_x = RInt(1) /\ zoom_y = RInt(1))

C18_MutexOnlyForSnapshot ==
  /\ [](caminfo_mutex_ = "render" => pc = "locked")
  /\ (cb_pc = "waiting" ~> cb_pc = "locked")

\* caminfoCallback() holds the mutex while the render thread is in its pass.
C18_Witness == cb_pc = "locked" /\ caminfo_mutex_ = "callback" /\ pc = "inPass"

\* ------------------------------------------------------------------ C20
\* C20: force_render_, once set, is cleared only by the step of update() that
\* follows its updateCamera() call; and while update() keeps being called,
\* every state with force_render_ set is followed by an updateCamera() call
\* whose result is the caminfo_ok_ of that update()'s render pass.
C20_ForceNeverLost ==
  /\ [][(force_render_ /\ ~force_render_') =>
         (pc = "compute" /\ pc' = "render" /\ att' # Null)]_vars
  /\ (force_render_ ~> (Resolved /\ caminfo_ok_ = att[1].ok))

====
